---- MODULE Spec2Model ----
(***************************************************************************)
(* The restaurant order service: the SQLite-backed order store             *)
(* (src/src/storage.rs), the order factory (src/src/api/order.rs), the     *)
(* meal catalog (src/src/meals_catalog.rs) and the request handlers that   *)
(* call them (src/src/app.rs).                                             *)
(*                                                                         *)
(* Time is counted in minutes, the unit of the catalog's cooking times.    *)
(*                                                                         *)
(* Spec is the service called by one request after another: an action is a *)
(* whole request, from the route to the answer.  SpecConc is the service   *)
(* with several requests in flight: a request is the call (the handler     *)
(* runs up to the store's `pool.acquire().await`) and then the execution   *)
(* of its one SQL statement, which SQLite runs atomically; the clock stands *)
(* still there.                                                            *)
(***************************************************************************)
EXTENDS Integers, Sequences, FiniteSets

\* ------------------------------------------------------------- bounds
\* Rows the orders relation may hold (add_order is disabled beyond it).
MaxOrders == 2
\* The last reading of the wall clock (Utc::now), in minutes.
MaxClock == 1
\* Rows the relation may hold when the handlers run concurrently.
MaxConcOrders == 2
\* Request handlers that run concurrently.
Handlers == {1, 2}
\* Table ids the requests name.
TableIds == {1, 2}

\* ---------------------------------------------------------- constants
\* OrderId::MAX, the id the factory leaves in a new order: u32::MAX in the
\* code, here the largest integer the checker's arithmetic holds.  No id the
\* store assigns within the bounds comes near either.
OrderIdMax == 2147483647
\* A meal id that is not in the catalog (test_put_invalid_order).
InvalidMeal == 1234

\* Option<T>: None and Some(x).
None == <<>>
Some(x) == <<x>>
\* SQL NULL sorts before every value in an index.
NullKey(opt) == IF opt = None THEN <<0, 0>> ELSE <<1, opt[1]>>

\* ------------------------------------------------------- meal catalog
\* lazy_static MEALS: ids 0..5, cooking times 1..6 minutes.
MEALS ==
  << [id |-> 0, name |-> "Green Tea",        cooking_time |-> 1],
     [id |-> 1, name |-> "Americano Coffee", cooking_time |-> 2],
     [id |-> 2, name |-> "Omellete",         cooking_time |-> 3],
     [id |-> 3, name |-> "Fried Egg",        cooking_time |-> 4],
     [id |-> 4, name |-> "Club Sandwich",    cooking_time |-> 5],
     [id |-> 5, name |-> "Fried Rice",       cooking_time |-> 6] >>

\* A lookup that falls back to the first meal instead of reporting absence.
MealCatalogGetOrFirst(meal_id) ==
  IF \E i \in 1..Len(MEALS) : MEALS[i].id = meal_id
    THEN Some(MEALS[CHOOSE i \in 1..Len(MEALS) :
                      /\ MEALS[i].id = meal_id
                      /\ \A j \in 1..(i - 1) : MEALS[j].id # meal_id])
    ELSE Some(MEALS[1])

\* MealCatalog::get: self.meals.iter().find(|m| m.id == meal_id).
MealCatalogGet(meal_id) ==
  IF \E i \in 1..Len(MEALS) : MEALS[i].id = meal_id
    THEN Some(MEALS[CHOOSE i \in 1..Len(MEALS) :
                      /\ MEALS[i].id = meal_id
                      /\ \A j \in 1..(i - 1) : MEALS[j].id # meal_id])
    ELSE None

\* Meal ids the requests name: two catalog meals and one unknown id.
MealInputs == {0, 1, InvalidMeal}

\* ------------------------------------------------------ order factory
\* A factory that forgets the cooking time.
OrderNewNoCooking(table_id, meal, now) ==
  [id |-> OrderIdMax, table_id |-> table_id, meal_id |-> meal.id,
   added_at |-> now, ready_at |-> now]

\* Order::new(table_id, meal), with now = Utc::now().
OrderNew(table_id, meal, now) ==
  [id |-> OrderIdMax, table_id |-> table_id, meal_id |-> meal.id,
   added_at |-> now, ready_at |-> now + meal.cooking_time]

\* ------------------------------------------------------------- state
VARIABLES
  orders,   \* the rows of relation `orders`, in rowid order
  clock,    \* the wall clock
  pc,       \* per handler: "idle" or the store operation it is waiting in
  req,      \* per handler: the arguments of the call in flight
  last,     \* the call that completed last, with its result
  issued,   \* history: the add_order calls that returned an id, in order
  deleted,  \* history: the ids of the rows a delete_order has marked
  tables,   \* the waiter client's queue of tables (the VecDeque in the Mutex)
  lock,     \* the waiter that holds the queue's Mutex, if any
  barrier,  \* how many waiter tasks have called Barrier::wait
  waiter    \* per waiter task: its position, iteration and table

\* The state of the waiter client (src/src/bin/clients.rs).
client == <<tables, lock, barrier, waiter>>

vars == <<orders, clock, pc, req, last, issued, deleted, client>>

\* ------------------------------------------------- the waiter client
\* const ITERATIONS: the iterations of a waiter task (10_000 in the code).
ITERATIONS == 2
\* The waiter tasks, 0..WAITERS (50 in the code).
WaiterIds == {0, 1}
WAITERS == Cardinality(WaiterIds)
\* The table ids, 0..TABLES (200 in the code), as many as there are waiters.
ClientTableIds == <<0, 1>>
TABLES == Len(ClientTableIds)
\* The meals MealsCatalog::random picks from.
ClientMeals == {0, 1}

\* Table::new(id).
TableNew(id) == [id |-> id, state |-> "Empty"]

\* Table::advance: the states gen_bool may lead to from a state.
Advance(state) ==
  CASE state = "Empty" -> {"Ordering", "Empty"}
    [] state = "Ordering" -> {"Ordering", "Eating"}
    [] state = "Eating" -> {"Ordering", "Eating", "Complete"}
    [] state = "Complete" -> {"Empty"}

\* A waiter task as spawned: before the barrier, no table taken.
WaiterNew ==
  [pc |-> "start", iter |-> 0, table |-> None, todo |-> <<>>, ok |-> TRUE]

\* Ids the requests name: those the store can issue, and one it never does.
OrderIds == 1..(MaxOrders + 1)

\* ------------------------------------------------- the relation's SQL
\* sqlx::FromRow for Order: the five columns of the struct; deleted_at is dropped.
RowToOrder(r) ==
  [id |-> r.id, table_id |-> r.table_id, meal_id |-> r.meal_id,
   added_at |-> r.added_at, ready_at |-> r.ready_at]

MaxOf(S) == CHOOSE x \in S : \A y \in S : y <= x

RowIds(rows) == {rows[i].id : i \in 1..Len(rows)}

\* Whether the relation holds a row of the id with deleted_at NULL.
Live(rows, id) ==
  \E i \in 1..Len(rows) : rows[i].id = id /\ rows[i].deleted_at = None

\* An id taken from the number of live rows.
NextRowidFromLiveCount(rows) ==
  Cardinality({i \in 1..Len(rows) : rows[i].deleted_at = None}) + 1

\* id INTEGER PRIMARY KEY without AUTOINCREMENT: an INSERT that gives no id
\* gets the largest rowid in the table plus one, 1 in an empty table.
NextRowid(rows) == IF rows = <<>> THEN 1 ELSE MaxOf(RowIds(rows)) + 1

\* An INSERT that binds added_at and ready_at in each other's place.
InsertRowWithIdSwappedTimes(rows, order, id) ==
  Append(rows, [id |-> id, table_id |-> order.table_id,
                meal_id |-> order.meal_id, added_at |-> order.ready_at,
                ready_at |-> order.added_at, deleted_at |-> None])

\* The relation with a new row of the given rowid; deleted_at is NULL.
InsertRowWithId(rows, order, id) ==
  Append(rows, [id |-> id, table_id |-> order.table_id,
                meal_id |-> order.meal_id, added_at |-> order.added_at,
                ready_at |-> order.ready_at, deleted_at |-> None])

\* INSERT INTO orders (table_id, meal_id, added_at, ready_at) VALUES (?,?,?,?):
\* the order's own id is not bound, so SQLite assigns the rowid.
InsertRow(rows, order) == InsertRowWithId(rows, order, NextRowid(rows))

\* RETURNING id of the row just inserted (the last in rowid order).
ReturningId(rows) == rows[Len(rows)].id
\* What add_order returns, an OrderId: of the order it carries the id and no
\* other field.
OrderId(id) == [id |-> id]

\* DELETE FROM orders WHERE id = ?: the row is removed.
HardDeleteRows(rows, order_id, now) ==
  SelectSeq(rows, LAMBDA r : r.id # order_id)

\* An UPDATE with `id <= ?` for `id = ?`.
UpdateDeletedAtUpToId(rows, order_id, now) ==
  [i \in 1..Len(rows) |->
     IF rows[i].id <= order_id
       THEN [rows[i] EXCEPT !.deleted_at = Some(now)]
       ELSE rows[i]]

\* A delete that marks the row and purges the rows marked before.
UpdateDeletedAtPurging(rows, order_id, now) ==
  LET kept == SelectSeq(rows, LAMBDA r : r.deleted_at = None)
  IN  [i \in 1..Len(kept) |->
         IF kept[i].id = order_id
           THEN [kept[i] EXCEPT !.deleted_at = Some(now)]
           ELSE kept[i]]

\* An UPDATE that sets ready_at along with deleted_at.
UpdateDeletedAtAndReadyAt(rows, order_id, now) ==
  [i \in 1..Len(rows) |->
     IF rows[i].id = order_id
       THEN [rows[i] EXCEPT !.deleted_at = Some(now), !.ready_at = now]
       ELSE rows[i]]

\* UPDATE orders SET deleted_at = ? WHERE id = ?: every row with the id,
\* deleted before or not, gets the new timestamp.
UpdateDeletedAt(rows, order_id, now) ==
  [i \in 1..Len(rows) |->
     IF rows[i].id = order_id
       THEN [rows[i] EXCEPT !.deleted_at = Some(now)]
       ELSE rows[i]]

\* The key of table_id_idx is (table_id, meal_id, deleted_at, rowid): the rowid
\* ends every index key, and NULL sorts first.
TableIdxLess(a, b) ==
  IF a.table_id # b.table_id THEN a.table_id < b.table_id
  ELSE IF a.meal_id # b.meal_id THEN a.meal_id < b.meal_id
  ELSE IF a.deleted_at # b.deleted_at
         THEN \/ NullKey(a.deleted_at)[1] < NullKey(b.deleted_at)[1]
              \/ /\ NullKey(a.deleted_at)[1] = NullKey(b.deleted_at)[1]
                 /\ NullKey(a.deleted_at)[2] < NullKey(b.deleted_at)[2]
  ELSE a.id < b.id

RECURSIVE InsertSorted(_, _)
\* The index after the insertion of row r.
InsertSorted(idx, r) ==
  IF idx = <<>> THEN <<r>>
  ELSE IF TableIdxLess(r, Head(idx))
         THEN <<r>> \o idx
         ELSE <<Head(idx)>> \o InsertSorted(Tail(idx), r)

RECURSIVE SortedByKey(_)
SortedByKey(rows) ==
  IF rows = <<>> THEN <<>>
  ELSE InsertSorted(SortedByKey(Tail(rows)), Head(rows))

\* SEARCH orders USING INDEX table_id_idx (table_id=?): the rows of the table,
\* in the order of CREATE INDEX table_id_idx ON orders(table_id, meal_id,
\* deleted_at).
TableIdIdxSearch(rows, table_id) ==
  SortedByKey(SelectSeq(rows, LAMBDA r : r.table_id = table_id))

Map(s, F(_)) == [i \in 1..Len(s) |-> F(s[i])]

\* ------------------------------------------------------- the queries
\* fetch_optional: the first row of the result, if any.
FetchOptional(s) == IF s = <<>> THEN None ELSE Some(s[1])

\* A lookup with `id <= ?` for `id = ?`.
SelectOrderUpToId(rows, order_id) ==
  Map(SelectSeq(rows, LAMBDA r : r.id <= order_id /\ r.deleted_at = None),
      RowToOrder)

\* A lookup that forgets the `deleted_at IS NULL` condition.
SelectOrderAnyState(rows, order_id) ==
  Map(SelectSeq(rows, LAMBDA r : r.id = order_id), RowToOrder)

\* SELECT * FROM orders where id = ? and deleted_at IS NULL
\* (SEARCH orders USING INTEGER PRIMARY KEY: rowid order).
SelectOrder(rows, order_id) ==
  Map(SelectSeq(rows, LAMBDA r : r.id = order_id /\ r.deleted_at = None),
      RowToOrder)

\* A table query that forgets the `deleted_at IS NULL` condition.
SelectOrdersForTableAnyState(rows, table_id) ==
  Map(TableIdIdxSearch(rows, table_id), RowToOrder)

\* SELECT * FROM orders WHERE table_id = ? AND deleted_at IS NULL, with no
\* ORDER BY: SQLite answers it by a search of table_id_idx (table_id = ?), so
\* the rows come in the order of the index.
SelectOrdersForTable(rows, table_id) ==
  Map(SelectSeq(TableIdIdxSearch(rows, table_id),
                LAMBDA r : r.deleted_at = None),
      RowToOrder)

\* A meal query that forgets the `meal_id = ?` condition.
SelectMealOrdersForTableAnyMeal(rows, table_id, meal_id) ==
  Map(SelectSeq(TableIdIdxSearch(rows, table_id),
                LAMBDA r : r.deleted_at = None),
      RowToOrder)

\* SELECT * FROM orders WHERE table_id = ? AND meal_id = ? AND deleted_at IS NULL
\* (a search of table_id_idx on all three columns).
SelectMealOrdersForTable(rows, table_id, meal_id) ==
  Map(SelectSeq(TableIdIdxSearch(rows, table_id),
                LAMBDA r : r.meal_id = meal_id /\ r.deleted_at = None),
      RowToOrder)

\* ------------------------------------------------ results and answers
\* anyhow::Result: Ok(v) and Err(error).
Ok(v) == [ok |-> TRUE, value |-> v]
Err == [ok |-> FALSE, value |-> "Storage failure"]
\* The value `()` of a call that reports nothing.
Unit == "()"

\* put_order's answer to the store's result.
PutOrderStatus(result) == IF result.ok THEN 200 ELSE 500
\* get_order's answer: Ok(Some) 200, Ok(None) 404, Err 500.
GetOrderStatus(result) ==
  IF ~result.ok THEN 500 ELSE IF result.value = None THEN 404 ELSE 200
\* get_orders_for_table's answer.
GetOrdersStatus(result) == IF result.ok THEN 200 ELSE 500
\* delete_order's answers: Ok(true) 204, Ok(false) 404, Err 500.  The store's
\* delete_order returns Ok(()), which is neither Ok(true) nor Ok(false): the
\* value tells the handler nothing, and the answer is either of the two.
DeleteOrderStatus(result) ==
  IF ~result.ok THEN {500}
  ELSE IF result.value = "true" THEN {204}
  ELSE IF result.value = "false" THEN {404}
  ELSE {204, 404}

NoReq == [op |-> "none"]

\* -------------------------------------------------------------- Init
Init ==
  /\ orders = <<>>
  /\ clock = 0
  /\ pc = [h \in Handlers |-> "idle"]
  /\ req = [h \in Handlers |-> NoReq]
  /\ last = [op |-> "none"]
  /\ issued = <<>>
  /\ deleted = {}
  /\ tables = [i \in 1..TABLES |-> TableNew(ClientTableIds[i])]
  /\ lock = None
  /\ barrier = 0
  /\ waiter = [w \in WaiterIds |-> WaiterNew]

\* What a call of each operation leaves in `last`.
PutOrderInvalid(table_id, meal_id) ==
  [op |-> "put_order", table_id |-> table_id, meal_id |-> meal_id,
   status |-> 400]
PutOrderDone(table_id, meal_id, result) ==
  [op |-> "put_order", table_id |-> table_id, meal_id |-> meal_id,
   result |-> result, status |-> PutOrderStatus(result)]
\* (seen: how many add_order calls had returned when the read was called.)
GetOrderDone(order_id, result, seen) ==
  [op |-> "get_order", order_id |-> order_id, result |-> result,
   status |-> GetOrderStatus(result), seen |-> seen]
DeleteOrderDone(order_id, result, status) ==
  [op |-> "delete_order", order_id |-> order_id, result |-> result,
   status |-> status]
GetOrdersForTableDone(table_id, result, seen) ==
  [op |-> "get_orders_for_table", table_id |-> table_id, result |-> result,
   status |-> GetOrdersStatus(result), seen |-> seen]
GetMealOrdersForTableDone(table_id, meal_id, result) ==
  [op |-> "get_meal_orders_for_table", table_id |-> table_id,
   meal_id |-> meal_id, result |-> result]
\* The history entry of an add_order that returned id.
Issued(id, order, concurrent) ==
  [id |-> id, table_id |-> order.table_id, meal_id |-> order.meal_id,
   added_at |-> order.added_at, ready_at |-> order.ready_at,
   concurrent |-> concurrent]

\* Storage::add_order(order): INSERT ... RETURNING id, for the PUT of
\* (table_id, meal_id).
AddOrder(table_id, meal_id, order, concurrent) ==
  /\ orders' = InsertRow(orders, order)
  /\ last' = PutOrderDone(table_id, meal_id, Ok(OrderId(ReturningId(orders'))))
  /\ issued' = Append(issued, Issued(ReturningId(orders'), order, concurrent))
  /\ UNCHANGED deleted

\* Storage::get_order(order_id).
StorageGetOrder(order_id, seen) ==
  /\ last' = GetOrderDone(order_id,
                          Ok(FetchOptional(SelectOrder(orders, order_id))), seen)
  /\ UNCHANGED <<orders, issued, deleted>>

\* Storage::delete_order(order_id): the UPDATE with deleted_at = Utc::now();
\* what the statement reports is dropped (`.map(|_| ())`).
StorageDeleteOrder(order_id) ==
  /\ orders' = UpdateDeletedAt(orders, order_id, clock)
  /\ \E status \in DeleteOrderStatus(Ok(Unit)) :
       last' = DeleteOrderDone(order_id, Ok(Unit), status)
  /\ deleted' = deleted \cup ({order_id} \cap RowIds(orders))
  /\ UNCHANGED issued

\* A table read that marks the orders it answers as deleted.
StorageGetOrdersForTableConsuming(table_id, seen) ==
  /\ last' = GetOrdersForTableDone(table_id,
                                   Ok(SelectOrdersForTable(orders, table_id)),
                                   seen)
  /\ orders' = [i \in 1..Len(orders) |->
                  IF orders[i].table_id = table_id /\ orders[i].deleted_at = None
                    THEN [orders[i] EXCEPT !.deleted_at = Some(clock)]
                    ELSE orders[i]]
  /\ UNCHANGED <<issued, deleted>>

\* Storage::get_orders_for_table(table_id).
StorageGetOrdersForTable(table_id, seen) ==
  /\ last' = GetOrdersForTableDone(table_id,
                                   Ok(SelectOrdersForTable(orders, table_id)),
                                   seen)
  /\ UNCHANGED <<orders, issued, deleted>>

\* Storage::get_meal_orders_for_table(table_id, meal_id).
StorageGetMealOrdersForTable(table_id, meal_id) ==
  /\ last' = GetMealOrdersForTableDone(
               table_id, meal_id,
               Ok(SelectMealOrdersForTable(orders, table_id, meal_id)))
  /\ UNCHANGED <<orders, issued, deleted>>

\* A failure reported after the INSERT took effect.
StorageFailsAfterWrite(op) ==
  /\ last' = [op |-> op, result |-> Err, status |-> 500]
  /\ orders' = IF op = "put_order" /\ Len(orders) < MaxOrders
                 THEN InsertRow(orders, OrderNew(1, MEALS[1], clock))
                 ELSE orders
  /\ UNCHANGED <<issued, deleted>>

\* `self.pool.acquire().await?` or the statement fails: the call returns the
\* error and the relation is as it was; a handler answers 500.
StorageFails(op) ==
  /\ last' = [op |-> op, result |-> Err, status |-> 500]
  /\ UNCHANGED <<orders, issued, deleted>>

\* The operations that reach the store.
StoreOps ==
  {"put_order", "get_order", "delete_order", "get_orders_for_table",
   "get_meal_orders_for_table"}

\* ------------------------------------------- one request after another
\* Time passes.
Tick ==
  /\ clock < MaxClock
  /\ clock' = clock + 1
  /\ UNCHANGED <<orders, pc, req, last, issued, deleted, client>>

\* PUT /table/:table/meal/:meal: the catalog lookup, then the 400 answer or
\* Order::new and Storage::add_order.
PutOrder(table_id, meal_id) ==
  /\ LET meal == MealCatalogGet(meal_id)
     IN IF meal # None
          THEN /\ Len(orders) < MaxOrders
               /\ AddOrder(table_id, meal_id,
                           OrderNew(table_id, meal[1], clock), FALSE)
          ELSE /\ last' = PutOrderInvalid(table_id, meal_id)
               /\ UNCHANGED <<orders, issued, deleted>>
  /\ UNCHANGED <<clock, pc, req, client>>

\* GET /order/:order.
GetOrder(order_id) ==
  /\ StorageGetOrder(order_id, Len(issued))
  /\ UNCHANGED <<clock, pc, req, client>>

\* DELETE /order/:order.
DeleteOrder(order_id) ==
  /\ StorageDeleteOrder(order_id)
  /\ UNCHANGED <<clock, pc, req, client>>

\* GET /table/:table/orders.
GetOrdersForTable(table_id) ==
  /\ StorageGetOrdersForTable(table_id, Len(issued))
  /\ UNCHANGED <<clock, pc, req, client>>

\* A call of Storage::get_meal_orders_for_table.
GetMealOrdersForTable(table_id, meal_id) ==
  /\ StorageGetMealOrdersForTable(table_id, meal_id)
  /\ UNCHANGED <<clock, pc, req, client>>

\* A request whose store call fails.
RequestFails(op) ==
  /\ StorageFails(op)
  /\ UNCHANGED <<clock, pc, req, client>>

Next ==
  \/ Tick
  \/ \E t \in TableIds, m \in MealInputs : PutOrder(t, m)
  \/ \E id \in OrderIds : GetOrder(id)
  \/ \E id \in OrderIds : DeleteOrder(id)
  \/ \E t \in TableIds : GetOrdersForTable(t)
  \/ \E t \in TableIds, m \in MealInputs : GetMealOrdersForTable(t, m)
  \/ \E op \in StoreOps : RequestFails(op)

Spec == Init /\ [][Next]_vars

\* ------------------------------------------ several requests in flight
\* Whether an add_order returned an id while handler h's call was in flight.
Overlapped(h) == Len(issued) > req[h].seen

\* Handler h returns to its caller.
Return(h) ==
  /\ pc' = [pc EXCEPT ![h] = "idle"]
  /\ req' = [req EXCEPT ![h] = NoReq]

\* PUT /table/:table/meal/:meal up to the store call: the catalog lookup, then
\* either the 400 answer or Order::new and the wait for a connection.
PutOrderCall(h, table_id, meal_id) ==
  /\ pc[h] = "idle"
  /\ LET meal == MealCatalogGet(meal_id)
     IN IF meal # None
          THEN /\ pc' = [pc EXCEPT ![h] = "add_order"]
               /\ req' = [req EXCEPT ![h] =
                            [op |-> "put_order", table_id |-> table_id,
                             meal_id |-> meal_id, seen |-> Len(issued),
                             order |-> OrderNew(table_id, meal[1], clock)]]
               /\ UNCHANGED last
          ELSE /\ last' = PutOrderInvalid(table_id, meal_id)
               /\ UNCHANGED <<pc, req>>
  /\ UNCHANGED <<orders, clock, issued, deleted, client>>

\* An add_order that inserts the id it worked out when it was called, one
\* past the ids issued by then.
AddOrderExecStaleId(h) ==
  /\ pc[h] = "add_order"
  /\ Len(orders) < MaxConcOrders
  /\ orders' = InsertRowWithId(orders, req[h].order, req[h].seen + 1)
  /\ last' = PutOrderDone(req[h].table_id, req[h].meal_id,
                          Ok(OrderId(ReturningId(orders'))))
  /\ issued' = Append(issued, Issued(ReturningId(orders'), req[h].order,
                                     Overlapped(h)))
  /\ Return(h)
  /\ UNCHANGED <<clock, deleted, client>>

\* An add_order that returns its id while the row is still to be written.
AddOrderExecUnflushed(h) ==
  /\ pc[h] = "add_order"
  /\ Len(issued) < MaxConcOrders
  /\ last' = PutOrderDone(req[h].table_id, req[h].meal_id,
                          Ok(OrderId(NextRowid(orders))))
  /\ issued' = Append(issued, Issued(NextRowid(orders), req[h].order,
                                     Overlapped(h)))
  /\ Return(h)
  /\ UNCHANGED <<orders, clock, deleted, client>>

\* An add_order whose row becomes visible before its ready_at is written.
AddOrderExecTorn(h) ==
  /\ pc[h] = "add_order"
  /\ Len(orders) < MaxConcOrders
  /\ orders' = InsertRow(orders, [req[h].order EXCEPT !.ready_at = 0])
  /\ last' = PutOrderDone(req[h].table_id, req[h].meal_id,
                          Ok(OrderId(ReturningId(orders'))))
  /\ issued' = Append(issued, Issued(ReturningId(orders'), req[h].order,
                                     Overlapped(h)))
  /\ Return(h)
  /\ UNCHANGED <<clock, deleted, client>>

\* The INSERT of a waiting add_order, and put_order's answer.
AddOrderExec(h) ==
  /\ pc[h] = "add_order"
  /\ Len(orders) < MaxConcOrders
  /\ AddOrder(req[h].table_id, req[h].meal_id, req[h].order, Overlapped(h))
  /\ Return(h)
  /\ UNCHANGED <<clock, client>>

\* DELETE /order/:order up to the store call.
DeleteOrderCall(h, order_id) ==
  /\ pc[h] = "idle"
  /\ pc' = [pc EXCEPT ![h] = "delete_order"]
  /\ req' = [req EXCEPT ![h] = [op |-> "delete_order", order_id |-> order_id,
                                 live |-> Live(orders, order_id)]]
  /\ UNCHANGED <<orders, clock, last, issued, deleted, client>>

\* The UPDATE of a waiting delete_order.
DeleteOrderExec(h) ==
  /\ pc[h] = "delete_order"
  /\ StorageDeleteOrder(req[h].order_id)
  /\ Return(h)
  /\ UNCHANGED <<clock, client>>

\* GET /order/:order up to the store call.
GetOrderCall(h, order_id) ==
  /\ pc[h] = "idle"
  /\ pc' = [pc EXCEPT ![h] = "get_order"]
  /\ req' = [req EXCEPT ![h] = [op |-> "get_order", order_id |-> order_id,
                                 seen |-> Len(issued)]]
  /\ UNCHANGED <<orders, clock, last, issued, deleted, client>>

\* The SELECT of a waiting get_order.
GetOrderExec(h) ==
  /\ pc[h] = "get_order"
  /\ StorageGetOrder(req[h].order_id, req[h].seen)
  /\ Return(h)
  /\ UNCHANGED <<clock, client>>

\* GET /table/:table/orders up to the store call.
GetOrdersForTableCall(h, table_id) ==
  /\ pc[h] = "idle"
  /\ pc' = [pc EXCEPT ![h] = "get_orders_for_table"]
  /\ req' = [req EXCEPT ![h] = [op |-> "get_orders_for_table",
                                 table_id |-> table_id, seen |-> Len(issued)]]
  /\ UNCHANGED <<orders, clock, last, issued, deleted, client>>

\* The SELECT of a waiting get_orders_for_table.
GetOrdersForTableExec(h) ==
  /\ pc[h] = "get_orders_for_table"
  /\ StorageGetOrdersForTable(req[h].table_id, req[h].seen)
  /\ Return(h)
  /\ UNCHANGED <<clock, client>>

\* The store call of a waiting handler fails.
StorageFailure(h) ==
  /\ pc[h] # "idle"
  /\ StorageFails(req[h].op)
  /\ Return(h)
  /\ UNCHANGED <<clock, client>>

\* Ids and the table the concurrent requests name.
ConcOrderIds == 1..MaxConcOrders
ConcTableIds == {1}

NextConc ==
  \/ \E h \in Handlers, t \in ConcTableIds, m \in MealInputs :
       PutOrderCall(h, t, m)
  \/ \E h \in Handlers : AddOrderExec(h)
  \/ \E h \in Handlers, id \in ConcOrderIds : DeleteOrderCall(h, id)
  \/ \E h \in Handlers : DeleteOrderExec(h)
  \/ \E h \in Handlers, id \in ConcOrderIds : GetOrderCall(h, id)
  \/ \E h \in Handlers : GetOrderExec(h)
  \/ \E h \in Handlers, t \in ConcTableIds : GetOrdersForTableCall(h, t)
  \/ \E h \in Handlers : GetOrdersForTableExec(h)
  \/ \E h \in Handlers : StorageFailure(h)

SpecConc == Init /\ [][NextConc]_vars

\* ---------------------------------------------- the waiter client's run
\* What the client leaves alone in the service.
server == <<clock, pc, req>>
\* The store as one request of the client may change it.
store == <<orders, last, issued, deleted>>

\* `for _ in 0..ITERATIONS`: the next iteration, or the task returns Ok(()).
LoopNext(iter) == IF iter < ITERATIONS THEN "lock_pop" ELSE "done"

\* The table a waiter holds.
Held(w) == waiter[w].table[1]

\* c.wait(): the task arrives at the barrier.
BarrierWait(w) ==
  /\ waiter[w].pc = "start"
  /\ barrier' = barrier + 1
  /\ waiter' = [waiter EXCEPT ![w].pc = "barrier"]
  /\ UNCHANGED <<tables, lock, server, store>>

\* c.wait() returns once WAITERS tasks have arrived.
BarrierPass(w) ==
  /\ waiter[w].pc = "barrier"
  /\ barrier = WAITERS
  /\ waiter' = [waiter EXCEPT ![w].pc = LoopNext(0)]
  /\ UNCHANGED <<tables, lock, barrier, server, store>>

\* tables.lock().await, before pop_front.
LockToPop(w) ==
  /\ waiter[w].pc = "lock_pop"
  /\ lock = None
  /\ lock' = Some(w)
  /\ waiter' = [waiter EXCEPT ![w].pc = "pop"]
  /\ UNCHANGED <<tables, barrier, server, store>>

\* A pop that leaves the lock held while the waiter serves the table.
PopFrontKeepsLock(w) ==
  /\ waiter[w].pc = "pop"
  /\ tables # <<>>
  /\ \E state \in Advance(Head(tables).state) :
       waiter' = [waiter EXCEPT
                    ![w].pc = "serve",
                    ![w].table = Some([Head(tables) EXCEPT !.state = state]),
                    ![w].todo = <<>>,
                    ![w].ok = TRUE]
  /\ tables' = Tail(tables)
  /\ UNCHANGED <<lock, barrier, server, store>>

\* A pop that hands out the front table and leaves it in the queue.
PopFrontPeeks(w) ==
  /\ waiter[w].pc = "pop"
  /\ tables # <<>>
  /\ \E state \in Advance(Head(tables).state) :
       waiter' = [waiter EXCEPT
                    ![w].pc = "serve",
                    ![w].table = Some([Head(tables) EXCEPT !.state = state]),
                    ![w].todo = <<>>,
                    ![w].ok = TRUE]
  /\ lock' = None
  /\ UNCHANGED <<tables, barrier, server, store>>

\* pop_front().unwrap().advance().await under the lock; the guard is dropped
\* at the end of the statement.  unwrap panics on an empty queue, and the task
\* ends.
PopFront(w) ==
  /\ waiter[w].pc = "pop"
  /\ IF tables = <<>>
       THEN /\ waiter' = [waiter EXCEPT ![w].pc = "panicked"]
            /\ UNCHANGED tables
       ELSE /\ \E state \in Advance(Head(tables).state) :
                 waiter' = [waiter EXCEPT
                              ![w].pc = "serve",
                              ![w].table =
                                Some([Head(tables) EXCEPT !.state = state]),
                              ![w].todo = <<>>,
                              ![w].ok = TRUE]
            /\ tables' = Tail(tables)
  /\ lock' = None
  /\ UNCHANGED <<barrier, server, store>>

\* Waiter::serve of a table that is Empty or Eating: nothing to do.
ServeIdle(w) ==
  /\ waiter[w].pc = "serve"
  /\ Held(w).state \in {"Empty", "Eating"}
  /\ waiter' = [waiter EXCEPT ![w].pc = "lock_push"]
  /\ UNCHANGED <<tables, lock, barrier, server, store>>

\* Waiter::serve of an Ordering table: PUT /table/{id}/meal/{meal} of a meal
\* of the catalog, which put_order serves with Order::new and add_order.
ServeOrdering(w) ==
  /\ waiter[w].pc = "serve"
  /\ Held(w).state = "Ordering"
  /\ \E meal_id \in ClientMeals :
       AddOrder(Held(w).id, meal_id,
                OrderNew(Held(w).id, MealCatalogGet(meal_id)[1], clock), FALSE)
  /\ waiter' = [waiter EXCEPT ![w].pc = "lock_push"]
  /\ UNCHANGED <<tables, lock, barrier, server>>

\* The PUT is answered 500 (the store failed): send() is Ok all the same, and
\* the waiter goes on.
ServeOrderingRejected(w) ==
  /\ waiter[w].pc = "serve"
  /\ Held(w).state = "Ordering"
  /\ StorageFails("put_order")
  /\ waiter' = [waiter EXCEPT ![w].pc = "lock_push", ![w].ok = FALSE]
  /\ UNCHANGED <<tables, lock, barrier, server>>

\* Waiter::serve of a Complete table: GET /table/{id}/orders, the orders to
\* clean.
ServeComplete(w) ==
  /\ waiter[w].pc = "serve"
  /\ Held(w).state = "Complete"
  /\ StorageGetOrdersForTable(Held(w).id, Len(issued))
  /\ LET found == SelectOrdersForTable(orders, Held(w).id)
     IN  waiter' = [waiter EXCEPT
                      ![w].todo = [i \in 1..Len(found) |-> found[i].id],
                      ![w].pc = IF found = <<>> THEN "lock_push" ELSE "delete"]
  /\ UNCHANGED <<tables, lock, barrier, server>>

\* A cleanup loop that stops one order short: the last order is not deleted.
ServeDeleteStopsShort(w) ==
  /\ waiter[w].pc = "delete"
  /\ IF Tail(waiter[w].todo) = <<>>
       THEN UNCHANGED store
       ELSE StorageDeleteOrder(Head(waiter[w].todo))
  /\ waiter' = [waiter EXCEPT
                  ![w].todo = Tail(waiter[w].todo),
                  ![w].pc = IF Tail(waiter[w].todo) = <<>>
                              THEN "lock_push" ELSE "delete"]
  /\ UNCHANGED <<tables, lock, barrier, server>>

\* `for order in orders.orders`: DELETE /order/{id} of the next order.
ServeDelete(w) ==
  /\ waiter[w].pc = "delete"
  /\ StorageDeleteOrder(Head(waiter[w].todo))
  /\ waiter' = [waiter EXCEPT
                  ![w].todo = Tail(waiter[w].todo),
                  ![w].pc = IF Tail(waiter[w].todo) = <<>>
                              THEN "lock_push" ELSE "delete"]
  /\ UNCHANGED <<tables, lock, barrier, server>>

\* The DELETE is answered 500: send() is Ok, the loop goes on, the order stays.
ServeDeleteRejected(w) ==
  /\ waiter[w].pc = "delete"
  /\ StorageFails("delete_order")
  /\ waiter' = [waiter EXCEPT
                  ![w].todo = Tail(waiter[w].todo),
                  ![w].ok = FALSE,
                  ![w].pc = IF Tail(waiter[w].todo) = <<>>
                              THEN "lock_push" ELSE "delete"]
  /\ UNCHANGED <<tables, lock, barrier, server>>

\* `.send().await?` or `.json().await?` is an error (the service unreachable,
\* or a GET answered 500, which is no GetOrdersResponse): serve returns it, the
\* task ends, and the table it held is dropped.
RequestError(w) ==
  /\ \/ waiter[w].pc = "delete"
     \/ waiter[w].pc = "serve" /\ Held(w).state \in {"Ordering", "Complete"}
  /\ waiter' = [waiter EXCEPT
                  ![w].pc = "failed", ![w].table = None, ![w].todo = <<>>,
                  ![w].ok = FALSE]
  /\ UNCHANGED <<tables, lock, barrier, server, store>>

\* tables.lock().await, before push_back.
LockToPush(w) ==
  /\ waiter[w].pc = "lock_push"
  /\ lock = None
  /\ lock' = Some(w)
  /\ waiter' = [waiter EXCEPT ![w].pc = "push"]
  /\ UNCHANGED <<tables, barrier, server, store>>

\* A waiter that keeps the table instead of pushing it back.
PushBackDrops(w) ==
  /\ waiter[w].pc = "push"
  /\ lock' = None
  /\ waiter' = [waiter EXCEPT
                  ![w].table = None,
                  ![w].iter = waiter[w].iter + 1,
                  ![w].pc = LoopNext(waiter[w].iter + 1)]
  /\ UNCHANGED <<tables, barrier, server, store>>

\* push_back(table) under the lock, and the end of the iteration.
PushBack(w) ==
  /\ waiter[w].pc = "push"
  /\ tables' = Append(tables, Held(w))
  /\ lock' = None
  /\ waiter' = [waiter EXCEPT
                  ![w].table = None,
                  ![w].iter = waiter[w].iter + 1,
                  ![w].pc = LoopNext(waiter[w].iter + 1)]
  /\ UNCHANGED <<barrier, server, store>>

NextClient ==
  \/ \E w \in WaiterIds : BarrierWait(w)
  \/ \E w \in WaiterIds : BarrierPass(w)
  \/ \E w \in WaiterIds : LockToPop(w)
  \/ \E w \in WaiterIds : PopFront(w)
  \/ \E w \in WaiterIds : ServeIdle(w)
  \/ \E w \in WaiterIds : ServeOrdering(w)
  \/ \E w \in WaiterIds : ServeOrderingRejected(w)
  \/ \E w \in WaiterIds : ServeComplete(w)
  \/ \E w \in WaiterIds : ServeDelete(w)
  \/ \E w \in WaiterIds : ServeDeleteRejected(w)
  \/ \E w \in WaiterIds : RequestError(w)
  \/ \E w \in WaiterIds : LockToPush(w)
  \/ \E w \in WaiterIds : PushBack(w)

\* The waiter client against the service, each request served as a whole.
SpecClient == Init /\ [][NextClient]_vars

\* One step of waiter w when every request returns successfully.
WaiterStep(w) ==
  \/ BarrierWait(w)
  \/ BarrierPass(w)
  \/ LockToPop(w)
  \/ PopFront(w)
  \/ ServeIdle(w)
  \/ ServeOrdering(w)
  \/ ServeComplete(w)
  \/ ServeDelete(w)
  \/ LockToPush(w)
  \/ PushBack(w)

NextClientOk == \E w \in WaiterIds : WaiterStep(w)

\* The client when every request returns successfully and tokio schedules
\* every spawned task that can run.
SpecClientFair ==
  /\ Init
  /\ [][NextClientOk]_vars
  /\ \A w \in WaiterIds : WF_vars(WaiterStep(w))

\* ------------------------------------------------------------ claims
IssuedIds == {issued[i].id : i \in 1..Len(issued)}
InCatalog(meal_id) == \E i \in 1..Len(MEALS) : MEALS[i].id = meal_id
CookingTime(meal_id) ==
  MEALS[CHOOSE i \in 1..Len(MEALS) : MEALS[i].id = meal_id].cooking_time
\* A completed store read or write of the named operation.
Completed(op) == last.op = op /\ "result" \in DOMAIN last /\ last.result.ok
Ids(s) == {s[i].id : i \in 1..Len(s)}
Ascending(s) == \A i, j \in 1..Len(s) : i < j => s[i].id < s[j].id

\* C1: the ids add_order has returned so far are pairwise distinct, also when
\* the add_order calls of different handlers are in flight together.
C1_IssuedIdsDistinct ==
  \A i, j \in 1..Len(issued) : i # j => issued[i].id # issued[j].id

\* Two add_order calls that were in flight together have both returned.
C1_Witness ==
  /\ Len(issued) >= 2
  /\ \E i \in 2..Len(issued) : issued[i].concurrent

\* C2: ids are never reused and increase: every id add_order returns is greater
\* than every id it returned before, those of deleted orders included.
C2_IssuedIdsIncrease ==
  \A i, j \in 1..Len(issued) : i < j => issued[i].id < issued[j].id

\* An add_order has just returned after an earlier order was deleted.
C2_Witness ==
  /\ Len(issued) >= 2
  /\ issued[1].id \in deleted
  /\ Completed("put_order")
  /\ last.result.value.id = issued[Len(issued)].id

\* C3: get_order of an id that add_order returned (and no delete_order has
\* marked) answers the order with the table and meal of that add_order and
\* with ready_at - added_at equal to the catalog's cooking time of the meal.
C3_GetAfterAdd ==
  Completed("get_order") =>
    \A i \in 1..Len(issued) :
      (issued[i].id = last.order_id /\ last.order_id \notin deleted) =>
        /\ last.result.value # None
        /\ last.result.value[1].id = issued[i].id
        /\ last.result.value[1].table_id = issued[i].table_id
        /\ last.result.value[1].meal_id = issued[i].meal_id
        /\ last.result.value[1].ready_at - last.result.value[1].added_at
             = CookingTime(issued[i].meal_id)

\* get_order has answered the second order added, one created after time 0.
C3_Witness ==
  /\ Completed("get_order")
  /\ last.order_id \in IssuedIds \ deleted
  /\ last.result.value # None
  /\ last.result.value[1].id = 2
  /\ last.result.value[1].added_at > 0

\* C4: get_order of an id that add_order never returned answers None, in the
\* empty store and in every other state.
C4_GetNeverIssued ==
  (Completed("get_order") /\ last.order_id \notin IssuedIds)
    => last.result.value = None

\* get_order has answered None for an id never issued while the store holds a
\* live order.
C4_Witness ==
  /\ Completed("get_order")
  /\ last.order_id \notin IssuedIds
  /\ last.result.value = None
  /\ \E i \in 1..Len(orders) : orders[i].deleted_at = None

\* A step in which a delete_order call completed.
DeleteOrderStep ==
  /\ last'.op = "delete_order"
  /\ last'.result.ok
  /\ (last' # last \/ orders' # orders)

\* C5: the delete_order of a live order returns true, after it get_order of
\* the id answers None, and a second delete_order of the id returns false.
C5_DeleteReturnsBool ==
  [][/\ (DeleteOrderStep /\ Live(orders, last'.order_id))
          => last'.result.value = "true"
     /\ (DeleteOrderStep /\ last'.order_id \in deleted)
          => last'.result.value = "false"
     /\ (last'.op = "get_order" /\ last'.result.ok /\ last'.order_id \in deleted')
          => last'.result.value = None]_vars

\* C6: an order that was deleted stays deleted: whatever is added, deleted or
\* read afterwards, no get_order, get_orders_for_table or
\* get_meal_orders_for_table shows its id again.
C6_DeletedStaysInvisible ==
  /\ (Completed("get_order") /\ last.order_id \in deleted)
       => last.result.value = None
  /\ (Completed("get_orders_for_table") \/ Completed("get_meal_orders_for_table"))
       => Ids(last.result.value) \cap deleted = {}

\* After a delete and a later add at the same table, the table was read: it
\* shows the new order only.
C6_Witness ==
  /\ Completed("get_orders_for_table")
  /\ Len(orders) = 2
  /\ orders[1].id \in deleted
  /\ orders[2].table_id = orders[1].table_id
  /\ orders[2].added_at > orders[1].deleted_at[1]
  /\ last.table_id = orders[1].table_id
  /\ Ids(last.result.value) = {orders[2].id}

\* The orders of table t no delete_order has marked, read off the relation.
LiveOrdersOfTable(t) ==
  {RowToOrder(orders[i]) :
     i \in {k \in 1..Len(orders) :
              orders[k].table_id = t /\ orders[k].deleted_at = None}}
Range(s) == {s[i] : i \in 1..Len(s)}

\* C7: get_orders_for_table(T) returns exactly the non-deleted orders of table
\* T, each once: none of another table, none deleted, none left out.
C7_TableOrdersExact ==
  Completed("get_orders_for_table") =>
    /\ Range(last.result.value) = LiveOrdersOfTable(last.table_id)
    /\ Len(last.result.value) = Cardinality(LiveOrdersOfTable(last.table_id))

\* The table read holds a live and a deleted order; the answer is the live one.
C7_Witness ==
  /\ Completed("get_orders_for_table")
  /\ Len(last.result.value) = 1
  /\ \E i \in 1..Len(orders) :
       orders[i].table_id = last.table_id /\ orders[i].deleted_at # None

\* C8: get_orders_for_table(T) lists the live orders of T in the order they
\* were added, that is by ascending id, whatever their meal ids.
C8_TableOrdersInInsertionOrder ==
  Completed("get_orders_for_table") => Ascending(last.result.value)

\* C9: get_meal_orders_for_table(T, M) returns exactly the non-deleted orders
\* of table T with meal M, in the order they were added (ascending id).
C9_MealOrdersExactInOrder ==
  Completed("get_meal_orders_for_table") =>
    /\ Range(last.result.value) =
         {o \in LiveOrdersOfTable(last.table_id) : o.meal_id = last.meal_id}
    /\ Ascending(last.result.value)

\* Two orders of the same table and meal were added and read back.
C9_Witness ==
  /\ Completed("get_meal_orders_for_table")
  /\ Len(last.result.value) = 2
  /\ last.result.value[1].added_at < last.result.value[2].added_at

\* A step in which a PUT of a meal id that is not in the catalog was answered.
PutInvalidStep ==
  /\ last' # last
  /\ last'.op = "put_order"
  /\ "meal_id" \in DOMAIN last'
  /\ ~InCatalog(last'.meal_id)

\* C10: a PUT whose meal id is not in the catalog is answered 400, never
\* reaches the store and leaves the store as it was.
C10_InvalidMealRejected ==
  [][PutInvalidStep =>
       /\ last'.status = 400
       /\ "result" \notin DOMAIN last'
       /\ orders' = orders
       /\ issued' = issued]_vars

\* A PUT of an unknown meal was answered 400 while the store holds an order.
C10_Witness ==
  /\ last.op = "put_order"
  /\ "meal_id" \in DOMAIN last
  /\ ~InCatalog(last.meal_id)
  /\ last.status = 400
  /\ Len(orders) >= 1
\* C11: DELETE /order/{id} answers 204 exactly when a live order with the id
\* existed (delete_order returned true) and 404 when there was none, the id
\* never issued or the order already deleted (delete_order returned false).
C11_DeleteStatus ==
  [][DeleteOrderStep =>
       IF Live(orders, last'.order_id)
         THEN last'.status = 204 /\ last'.result.value = "true"
         ELSE last'.status = 404 /\ last'.result.value = "false"]_vars

\* C12: GET /order/{id} answers 200 with the order exactly when a live order
\* with the id exists; when there is none it answers 404 with no order, the
\* same answer whether the id was never issued or the order was deleted.
C12_GetOrderStatus ==
  Completed("get_order") =>
    IF Live(orders, last.order_id)
      THEN /\ last.status = 200
           /\ last.result.value # None
           /\ last.result.value[1].id = last.order_id
      ELSE /\ last.status = 404
           /\ last.result.value = None

\* GET of a deleted order was answered 404 while another order is live.
C12_Witness ==
  /\ Completed("get_order")
  /\ last.order_id \in deleted
  /\ last.status = 404
  /\ \E i \in 1..Len(orders) : orders[i].deleted_at = None

\* A step in which add_order or delete_order returned a storage failure.
FailedWriteStep ==
  /\ "result" \in DOMAIN last'
  /\ ~last'.result.ok
  /\ last'.op \in {"put_order", "delete_order"}
  /\ last' # last

\* C13: an add_order or delete_order that fails with a storage failure leaves
\* the store as it was: no row added, no row's deletion mark changed, and the
\* id the next add_order will get is the same as before.
C13_FailedWriteLeavesStore ==
  [][FailedWriteStep =>
       /\ orders' = orders
       /\ issued' = issued
       /\ deleted' = deleted
       /\ NextRowid(orders') = NextRowid(orders)]_vars

\* A write has failed while the store holds a live order.
C13_Witness ==
  /\ last.op \in {"put_order", "delete_order"}
  /\ "result" \in DOMAIN last
  /\ ~last.result.ok
  /\ \E i \in 1..Len(orders) : orders[i].deleted_at = None

\* The order the i-th add_order that returned has written.
IssuedOrder(i) ==
  [id |-> issued[i].id, table_id |-> issued[i].table_id,
   meal_id |-> issued[i].meal_id, added_at |-> issued[i].added_at,
   ready_at |-> issued[i].ready_at]
IssuedOrders == {IssuedOrder(i) : i \in 1..Len(issued)}

C15_ReadsSeeReturnedWrites ==
  /\ Completed("get_order") =>
        /\ \A i \in 1..last.seen :
              (issued[i].id = last.order_id /\ last.order_id \notin deleted)
                => last.result.value = Some(IssuedOrder(i))
        /\ last.order_id \in deleted => last.result.value = None
  /\ Completed("get_orders_for_table") =>
        /\ \A i \in 1..last.seen :
              (issued[i].table_id = last.table_id /\ issued[i].id \notin deleted)
                => IssuedOrder(i) \in Range(last.result.value)
        /\ Ids(last.result.value) \cap deleted = {}

\* A table read called after two add_order calls had returned has answered
\* the one order of the two that no delete_order has marked.
C15_Witness ==
  /\ Completed("get_orders_for_table")
  /\ last.seen = 2
  /\ Cardinality(deleted) = 1
  /\ Len(last.result.value) = 1
  /\ last.result.value[1].id \in IssuedIds \ deleted

\* C16: a delete_order of an order that is already deleted is a no-op: it
\* leaves every row of the store as it was, the order's deletion timestamp
\* included.
C16_RepeatedDeleteIsNoOp ==
  [][(DeleteOrderStep /\ last'.order_id \in deleted) => orders' = orders]_vars

\* C17: a stored order is never changed except by its deletion mark: in every
\* state the rows of the store are, in id, table_id, meal_id, added_at and
\* ready_at, the orders the add_order calls wrote, one row for each.
C17_OrdersNeverMutated ==
  /\ Len(orders) = Len(issued)
  /\ \A i \in 1..Len(issued) : RowToOrder(orders[i]) = IssuedOrder(i)

\* The first order was added and, after time passed, deleted; a second order
\* was added after that, and an order was read.
C17_Witness ==
  /\ Len(orders) = 2
  /\ orders[1].added_at = 0
  /\ orders[1].deleted_at = Some(1)
  /\ orders[2].added_at = 1
  /\ last.op = "get_order"

\* C18: every stored order, live or deleted, has ready_at later than added_at,
\* and ready_at - added_at is the catalog's cooking time of its meal_id.
C18_ReadyAfterCookingTime ==
  \A i \in 1..Len(orders) :
    /\ InCatalog(orders[i].meal_id)
    /\ orders[i].ready_at > orders[i].added_at
    /\ orders[i].ready_at - orders[i].added_at = CookingTime(orders[i].meal_id)

\* The store holds a deleted and a live order of different meals, added at
\* different times.
C18_Witness ==
  /\ Len(orders) = 2
  /\ orders[1].deleted_at # None
  /\ orders[2].deleted_at = None
  /\ orders[1].meal_id # orders[2].meal_id
  /\ orders[1].added_at < orders[2].added_at
  /\ last.op = "delete_order"

\* C19: what a successful add_order / PUT returns is the order with the id
\* the store assigned, not the factory's OrderId::MAX, and with the table_id
\* and meal_id of the request; the first order of a fresh store has id 1.
C19_PutReturnsOrder ==
  Completed("put_order") =>
    /\ last.result.value.id = issued[Len(issued)].id
    /\ last.result.value.id # OrderIdMax
    /\ (Len(issued) = 1 => last.result.value.id = 1)
    /\ {"table_id", "meal_id"} \subseteq DOMAIN last.result.value
    /\ last.result.value.table_id = last.table_id
    /\ last.result.value.meal_id = last.meal_id

\* C20: deletion is soft: no step removes a record, so the number of stored
\* records, live and deleted together, never goes down, and in every state
\* the record of every deleted order is still stored, with its deletion
\* timestamp set.
C20_SoftDelete ==
  /\ [][Len(orders') >= Len(orders)]_vars
  /\ [](\A id \in deleted :
          \E k \in 1..Len(orders) :
            orders[k].id = id /\ orders[k].deleted_at # None)

\* Both orders of the store are deleted, and both records are still there.
C20_Witness ==
  /\ Len(orders) = 2
  /\ deleted = {1, 2}
  /\ \A k \in 1..2 : orders[k].deleted_at # None
  /\ last.op = "delete_order"

\* The answer s of a list query without the order of the given id.
Without(s, id) == SelectSeq(s, LAMBDA o : o.id # id)

\* C21 as stated: delete_order(id) leaves, for every other id, the result of
\* get_order and the order's membership and position (its index) in the
\* answers of get_orders_for_table and get_meal_orders_for_table as they were.
C21_DeleteKeepsPositions ==
  [][DeleteOrderStep =>
       /\ \A j \in OrderIds \ {last'.order_id} :
            SelectOrder(orders', j) = SelectOrder(orders, j)
       /\ \A t \in TableIds :
            LET before == SelectOrdersForTable(orders, t)
                after == SelectOrdersForTable(orders', t)
            IN  \A k \in 1..Len(before) :
                  before[k].id # last'.order_id =>
                    k <= Len(after) /\ after[k] = before[k]]_vars

\* C21 as amended: delete_order(id) leaves, for every other id, the result of
\* get_order as it was, and the answers of get_orders_for_table and
\* get_meal_orders_for_table are, the order of id apart, the same orders in
\* the same relative order before and after the call.  (A call that leaves the
\* rows as they were leaves every answer as it was.)
C21_DeleteAffectsOnlyItsOrder ==
  [][(DeleteOrderStep /\ orders' # orders) =>
       /\ \A j \in OrderIds \ {last'.order_id} :
            SelectOrder(orders', j) = SelectOrder(orders, j)
       /\ \A t \in TableIds :
            /\ Without(SelectOrdersForTable(orders', t), last'.order_id)
                 = Without(SelectOrdersForTable(orders, t), last'.order_id)
            /\ \A m \in MealInputs :
                 Without(SelectMealOrdersForTable(orders', t, m), last'.order_id)
                   = Without(SelectMealOrdersForTable(orders, t, m),
                             last'.order_id)]_vars

\* The first of two live orders of a table was deleted; the second is live.
C21_Witness ==
  /\ last.op = "delete_order"
  /\ last.result.ok
  /\ last.order_id = 1
  /\ Len(orders) = 2
  /\ orders[1].deleted_at # None
  /\ orders[2].deleted_at = None
  /\ orders[2].table_id = orders[1].table_id

\* A step in which a read of the store completed.
ReadStep ==
  /\ last'.op \in {"get_order", "get_orders_for_table",
                   "get_meal_orders_for_table"}
  /\ last'.result.ok

\* What the read that `done` records answers when it is run on rows.
ReadAgain(done, rows) ==
  IF done.op = "get_order"
    THEN FetchOptional(SelectOrder(rows, done.order_id))
  ELSE IF done.op = "get_orders_for_table"
    THEN SelectOrdersForTable(rows, done.table_id)
  ELSE SelectMealOrdersForTable(rows, done.table_id, done.meal_id)

\* C22: get_order, get_orders_for_table and get_meal_orders_for_table leave
\* the store unchanged: after a read every row is as before, so the same read
\* run again on the store it leaves behind answers what it just answered, and
\* every other read answers what it would have answered before.
C22_ReadsLeaveStore ==
  [][ReadStep =>
       /\ orders' = orders
       /\ last'.result.value = ReadAgain(last', orders')]_vars

\* A table read has answered two orders, and both are still live.
C22_Witness ==
  /\ Completed("get_orders_for_table")
  /\ Len(last.result.value) = 2
  /\ \A i \in 1..Len(orders) : orders[i].deleted_at = None

\* Handler h's delete_order call completes in this step.
DeleteOrderExecStep(h) ==
  /\ pc[h] = "delete_order"
  /\ pc'[h] = "idle"
  /\ last'.op = "delete_order"
  /\ last'.result.ok

\* Handler h and another handler have each a delete_order of the same id in
\* flight, both called while the order was live.
RacingDelete(h) ==
  /\ req[h].live
  /\ \E g \in Handlers \ {h} :
       /\ pc[g] = "delete_order"
       /\ req[g].order_id = req[h].order_id
       /\ req[g].live

\* C23: of two delete_order calls of the same live order that are in flight
\* together, the one whose statement runs first is told true / 204 and the
\* other, which finds the order deleted, is told false / 404.
C23_RacingDeletesOneWins ==
  [][\A h \in Handlers :
       /\ (DeleteOrderExecStep(h) /\ RacingDelete(h)
              /\ Live(orders, req[h].order_id))
            => (last'.result.value = "true" /\ last'.status = 204)
       /\ (DeleteOrderExecStep(h) /\ req[h].live
              /\ ~Live(orders, req[h].order_id))
            => (last'.result.value = "false" /\ last'.status = 404)]_vars

\* Where a table id is: the positions of the queue that hold it, and the
\* waiters that hold it.
InQueue(id) == {i \in 1..Len(tables) : tables[i].id = id}
Holders(id) ==
  {w \in WaiterIds : waiter[w].table # None /\ Held(w).id = id}
Copies(id) == Cardinality(InQueue(id)) + Cardinality(Holders(id))
ClientTables == {ClientTableIds[i] : i \in 1..TABLES}

\* C24, as stated: in every reachable state each table id is in the queue
\* exactly once or held by exactly one waiter.
C24_EveryTableSomewhere == \A id \in ClientTables : Copies(id) = 1

\* C24: a table id is never at two places (twice in the queue, with two
\* waiters, or in the queue and with a waiter), so no two waiters serve the
\* same table; and it is at exactly one place as long as no waiter's task has
\* ended on a failed request, which drops the table the waiter held.
C24_TableHeldByAtMostOne ==
  /\ \A id \in ClientTables : Copies(id) <= 1
  /\ (\A w \in WaiterIds : waiter[w].pc # "failed")
       => \A id \in ClientTables : Copies(id) = 1
  /\ Cardinality({id \in ClientTables : Copies(id) = 0})
       = Cardinality({w \in WaiterIds : waiter[w].pc = "failed"})

\* Two waiters serve at once, each its own table.
C24_Witness ==
  /\ \A w \in WaiterIds : waiter[w].pc = "serve"
  /\ \A v, w \in WaiterIds : v # w => Held(v).id # Held(w).id

\* C25: a waiter that has taken the lock to pop_front finds a table in the
\* queue, and no task has panicked on the unwrap.
C25_PopFindsTable ==
  \A w \in WaiterIds :
    /\ waiter[w].pc # "panicked"
    /\ waiter[w].pc = "pop" => tables # <<>>

\* A waiter is about to pop the only table of the queue, the other tables
\* being held.
C25_Witness ==
  \E w \in WaiterIds :
    /\ waiter[w].pc = "pop"
    /\ Len(tables) = TABLES - (WAITERS - 1)
    /\ \A v \in WaiterIds \ {w} : waiter[v].table # None

\* C26: a waiter that has finished serving a Complete table, every request
\* of the service having succeeded, leaves no live order of that table.
C26_CompleteTableIsClean ==
  \A w \in WaiterIds :
    (/\ waiter[w].pc \in {"lock_push", "push"}
     /\ Held(w).state = "Complete"
     /\ waiter[w].ok)
      => SelectOrdersForTable(orders, Held(w).id) = <<>>

\* A waiter has cleaned a Complete table that had an order, while another
\* table has a live order.
C26_Witness ==
  \E w \in WaiterIds :
    /\ waiter[w].pc = "lock_push"
    /\ Held(w).state = "Complete"
    /\ waiter[w].ok
    /\ \E k \in 1..Len(orders) :
         /\ orders[k].table_id = Held(w).id
         /\ orders[k].id \in deleted
    /\ \E k \in 1..Len(orders) :
         /\ orders[k].table_id # Held(w).id
         /\ orders[k].deleted_at = None

\* Every task has returned from its loop and every table is in the queue.
AllDone ==
  /\ \A w \in WaiterIds :
       waiter[w].pc = "done" /\ waiter[w].iter = ITERATIONS
  /\ \A id \in ClientTables : Cardinality(InQueue(id)) = 1
  /\ lock = None

\* C27: when every request returns successfully and scheduling is fair, no
\* task is past the barrier before all WAITERS tasks have arrived, a waiter
\* that serves a table does not hold the lock of the queue, and eventually
\* every waiter has completed its ITERATIONS iterations with every table
\* back in the queue.
C27_ClientTerminates ==
  /\ [](\A w \in WaiterIds :
          /\ waiter[w].pc \notin {"start", "barrier"} => barrier = WAITERS
          /\ waiter[w].pc \in {"serve", "delete", "lock_push", "lock_pop"}
               => lock # Some(w))
  /\ <>AllDone

C27_Witness == AllDone

====
